---- MODULE Spec2Model ----
(***************************************************************************)
(* The notification dispatch path of the API package: module load of the   *)
(* notification router (environment check, SQS client), and the two tRPC   *)
(* procedures notification.enqueue and notification.batchEnqueue.          *)
(*                                                                         *)
(* One request is followed at a time: the two handlers share no mutable    *)
(* state, so concurrent requests do not interact.  A request is received,  *)
(* handled up to its await (all sends are issued synchronously by then),   *)
(* its sends settle one by one in any order, and then it returns.          *)
(*                                                                         *)
(* The NotificationCenter form of the web application is a second         *)
(* specification, FormSpec: its events are atomic, the answer to a         *)
(* mutation call is any of the results the API can give.                   *)
(*                                                                         *)
(* Optional values (T | null | undefined) are None or Some(v).             *)
(* JSON values a client supplies carry their JSON type: Str, Num, Obj.     *)
(***************************************************************************)
EXTENDS Integers, Sequences, FiniteSets, TLC

VARIABLES
  requiredEnvs,   \* the two environment variables read at module load
  proc,           \* "starting", "serving" (module loaded) or "crashed"
  startupError,   \* the Error thrown by module load, if any
  now,            \* the clock, in milliseconds
  ticks,          \* how many times the clock has advanced
  pc,             \* position of the request: idle, received, awaiting, returned
  procedure,      \* "enqueue" or "batchEnqueue" ("none" while idle)
  session,        \* ctx.session of the request
  rawInput,       \* the client-supplied items (one for enqueue)
  start,          \* the time at which the call started
  input,          \* the parsed items, once validation passed
  sent,           \* the commands this call passed to sqsClient.send, in order
  promises,       \* per item, the state of its send promise
  response,       \* what the call returned to the caller
  firstSettled,   \* the item whose send settled first, once one has
  senderOf,       \* per user, the senderUserId values seen on their messages
  \* the NotificationCenter component
  signedIn,       \* useSession() gave a session: the form is rendered
  isBatchMode,    \* useState(false)
  recipients,     \* useState<string[]>([])
  recipientInput, \* the text in the "Add recipient ID" box
  formValues,     \* the values held by useForm
  sendStatus,     \* status of the enqueue mutation hook
  batchStatus,    \* status of the batchEnqueue mutation hook
  inFlight,       \* the mutation calls issued and not yet answered
  toast,          \* the last toast shown
  lastEvent,      \* the last thing that happened to the component
  issued          \* the mutation call the last event issued, if any

serverVars == <<requiredEnvs, proc, startupError, now, ticks, pc, procedure, session,
                rawInput, start, input, sent, promises, response, firstSettled,
                senderOf>>

formVars == <<signedIn, isBatchMode, recipients, recipientInput, formValues,
              sendStatus, batchStatus, inFlight, toast, lastEvent, issued>>

vars == <<serverVars, formVars>>

None == <<>>

Some(v) == <<v>>

Str(v) == [t |-> "string", v |-> v]

Num(v) == [t |-> "number", v |-> v]

Obj(v) == [t |-> "object", v |-> v]

\* ---------------------------------------------------------------- bounds

\* Items of a batch whose sends settle in every order with every outcome;
\* sends issued after these settle successfully, in issue order.
MaxLen == 3

\* How many times the clock advances (by a millisecond or by a second; time
\* that passes while the sends are in flight is read by nothing and is left
\* to pass after the return).
MaxTicks == 1

\* ------------------------------------------------------------- constants

BatchMax == 10

MsPerSec == 1000

\* ------------------------------------------------------------ module load

EnvKeys == <<"AWS_REGION", "AWS_SQS_NOTIFICATION_QUEUE_URL">>

EnvValues(k) ==
  {None, Some(""), Some(IF k = "AWS_REGION" THEN "us-east-1" ELSE "https://sqs/q")}

\* !value: undefined and the empty string are both falsy
Falsy(value) == value = None \/ value = Some("")

EnvCheckedNoUrl(envs) == SelectSeq(<<"AWS_REGION">>, LAMBDA k : Falsy(envs[k]))

\* Object.entries(requiredEnvs).forEach: the keys, in order, that throw
MissingEnvs(envs) == SelectSeq(EnvKeys, LAMBDA k : Falsy(envs[k]))

MissingEnvError(key) ==
  [name |-> "Error", message |-> "Missing required environment variable: ", key |-> key]

\* ------------------------------------------------------------ the schema

NotificationTypeEnum == {"COMMENT_REPLY", "POST_MENTION", "DIRECT_MESSAGE", "SYSTEM_ALERT"}

PriorityEnum == {"high", "normal", "low"}

PriorityDefault == "normal"

IsString(raw, k) == k \in DOMAIN raw /\ raw[k].t = "string"

\* NotificationPayloadSchema.safeParse(raw).success
NotificationPayloadOk(raw) ==
  /\ IsString(raw, "type") /\ raw["type"].v \in NotificationTypeEnum
  /\ IsString(raw, "userId")
  /\ IsString(raw, "title")
  /\ IsString(raw, "body")
  /\ "metadata" \in DOMAIN raw => raw["metadata"].t = "object"
  /\ "priority" \in DOMAIN raw =>
       IsString(raw, "priority") /\ raw["priority"].v \in PriorityEnum

\* NotificationPayloadSchema.parse(raw): the declared keys only (unknown keys
\* are stripped), priority defaulted
NotificationPayloadSchema(raw) ==
  LET base == [type |-> raw["type"].v,
               userId |-> raw["userId"].v,
               title |-> raw["title"].v,
               body |-> raw["body"].v,
               priority |-> IF "priority" \in DOMAIN raw
                              THEN raw["priority"].v ELSE PriorityDefault]
  IN  IF "metadata" \in DOMAIN raw
        THEN base @@ ("metadata" :> raw["metadata"].v)
        ELSE base

ArrayMaxOffByOne(items) == Len(items) <= BatchMax + 1

\* z.array(...).max(10)
ArrayMaxOk(items) == Len(items) <= BatchMax

InputOk(p, items) ==
  /\ p = "batchEnqueue" => ArrayMaxOk(items)
  /\ \A i \in 1..Len(items) : NotificationPayloadOk(items[i])

\* --------------------------------------------------------- authorization

publicProcedure(sess) == "OK"

\* trpc.ts, protectedProcedure: no session, no entry
protectedProcedure(sess) == IF sess = None THEN "UNAUTHORIZED" ELSE "OK"

\* the procedure builder each route is declared with
EnqueueProcedure(sess) == protectedProcedure(sess)

BatchEnqueueProcedure(sess) == protectedProcedure(sess)

Middleware(p, sess) ==
  IF p = "enqueue" THEN EnqueueProcedure(sess) ELSE BatchEnqueueProcedure(sess)

\* ------------------------------------------------------------- the clock

toISOStringNoMillis(t) == [sec |-> t \div MsPerSec, ms |-> 0]

\* Date.prototype.toISOString: seconds and milliseconds as separate fields
toISOString(t) == [sec |-> t \div MsPerSec, ms |-> t % MsPerSec]

\* ----------------------------------------------------------- the message

SenderFromPayload(sess, notification) == notification.userId

\* ctx.session.user.id
SenderUserId(sess, notification) == sess[1].user.id

\* { ...notification, timestamp, senderUserId }: later keys win
MessageBody(notification, sess, t) ==
  ("timestamp" :> toISOString(t)) @@
  ("senderUserId" :> SenderUserId(sess, notification)) @@
  notification

AttributesPriorityFixed(notification) ==
  [NotificationType |-> [DataType |-> "String", StringValue |-> notification.type],
   Priority |-> [DataType |-> "String", StringValue |-> PriorityDefault]]

MessageAttributes(notification) ==
  [NotificationType |-> [DataType |-> "String", StringValue |-> notification.type],
   Priority |-> [DataType |-> "String", StringValue |-> notification.priority]]

\* new SendMessageCommand({...})
SendMessageCommand(notification, sess, t) ==
  [QueueUrl |-> requiredEnvs["AWS_SQS_NOTIFICATION_QUEUE_URL"],
   MessageBody |-> MessageBody(notification, sess, t),
   MessageAttributes |-> MessageAttributes(notification)]

\* ------------------------------------------------------------- the queue

Pending == [status |-> "pending"]

Fulfilled(messageId) == [status |-> "fulfilled", value |-> [MessageId |-> messageId]]

Rejected(reason) == [status |-> "rejected", reason |-> reason]

\* How sqsClient.send(command) of the i-th send can settle: with a
\* MessageId, without one, rejected with an Error, rejected with a value
\* that is not an Error.
SendOutcomes(i) ==
  {Fulfilled(Some(i)),
   Fulfilled(None),
   Rejected([isError |-> TRUE, message |-> "QueueDoesNotExist"]),
   Rejected([isError |-> FALSE, message |-> "thrown value"])}

\* ------------------------------------------------------------- responses

NoResponse == [kind |-> "none"]

TRPCError(code, message) == [kind |-> "error", code |-> code, message |-> message]

Data(d) == [kind |-> "data", data |-> d]

EnqueueReturnUnchecked(settlement, messageBody) ==
  IF settlement.status = "fulfilled"
    THEN Data([success |-> TRUE,
               messageId |-> settlement.value.MessageId,
               timestamp |-> messageBody["timestamp"]])
    ELSE TRPCError("INTERNAL_SERVER_ERROR", "Failed to enqueue notification")

\* enqueue after its await: the try block and its catch
EnqueueReturn(settlement, messageBody) ==
  IF settlement.status = "fulfilled" /\ settlement.value.MessageId # None
    THEN Data([success |-> TRUE,
               messageId |-> settlement.value.MessageId,
               timestamp |-> messageBody["timestamp"]])
    ELSE TRPCError("INTERNAL_SERVER_ERROR", "Failed to enqueue notification")

ResultEntryRequiresId(result) ==
  IF result.status = "fulfilled" /\ result.value.MessageId = None
    THEN [status |-> "rejected", messageId |-> None,
          error |-> Some("SQS did not return a MessageId")]
    ELSE [status |-> result.status,
          messageId |-> IF result.status = "fulfilled" THEN result.value.MessageId ELSE None,
          error |-> IF result.status = "rejected" /\ result.reason.isError
                      THEN Some(result.reason.message) ELSE None]

\* one entry of results.map(...)
ResultEntry(result) ==
  [status |-> result.status,
   messageId |-> IF result.status = "fulfilled" THEN result.value.MessageId ELSE None,
   error |-> IF result.status = "rejected" /\ result.reason.isError
               THEN Some(result.reason.message) ELSE None]

ResultsFulfilledOnly(results) ==
  LET kept == SelectSeq(results, LAMBDA r : r.status = "fulfilled")
  IN  [i \in 1..Len(kept) |-> ResultEntry(kept[i])]

\* results.map(...), in the order of the input
ResultsMap(results) == [i \in 1..Len(results) |-> ResultEntry(results[i])]

BatchReturnAllOrNothing(results) ==
  Data([success |-> \A i \in 1..Len(results) : results[i].status = "fulfilled",
        results |-> ResultsMap(results)])

\* the object batchEnqueue returns
BatchReturn(results) == Data([success |-> TRUE, results |-> ResultsMap(results)])

FirstRejectionDone(ps) ==
  \/ \A i \in 1..Len(ps) : ps[i].status # "pending"
  \/ \E i \in 1..Len(ps) : ps[i].status = "rejected"

\* Promise.allSettled resolves once no promise is pending
AllSettled(ps) == \A i \in 1..Len(ps) : ps[i].status # "pending"

\* ---------------------------------------------------------------- inputs

Users == {"alice", "bob"}

Sessions == {None} \cup {Some([user |-> [id |-> u]]) : u \in Users}

Valid1 ==
  [type |-> Str("DIRECT_MESSAGE"), userId |-> Str("bob"), title |-> Str("t"),
   body |-> Str("b"), priority |-> Str("high")]

\* no priority
Valid2 ==
  [type |-> Str("COMMENT_REPLY"), userId |-> Str("carol"), title |-> Str("t"),
   body |-> Str("b")]

\* metadata, and keys the schema does not declare
Valid3 ==
  [type |-> Str("SYSTEM_ALERT"), userId |-> Str("bob"), title |-> Str("t"),
   body |-> Str("b"), priority |-> Str("low"), metadata |-> Obj("m"),
   senderUserId |-> Str("mallory"), timestamp |-> Str("1970-01-01T00:00:00.000Z")]

Valid4 ==
  [type |-> Str("POST_MENTION"), userId |-> Str("alice"), title |-> Str("t"),
   body |-> Str("b"), priority |-> Str("normal")]

BadType == [Valid1 EXCEPT !["type"] = Str("BOGUS")]

BadPriority == [Valid1 EXCEPT !["priority"] = Str("urgent")]

MissingTitle ==
  [type |-> Str("DIRECT_MESSAGE"), userId |-> Str("bob"), body |-> Str("b"),
   priority |-> Str("high")]

BadUserId == [Valid1 EXCEPT !["userId"] = Num("42")]

RawItems ==
  {Valid1, Valid2, Valid3, Valid4, BadType, BadPriority, MissingTitle, BadUserId}

\* a batch of n items that alternates between two payloads
BatchOf(n, a, b) == [i \in 1..n |-> IF i % 2 = 1 THEN a ELSE b]

BatchPairs ==
  {<<Valid2, Valid3>>, <<Valid3, Valid1>>, <<Valid2, BadPriority>>, <<BadType, Valid3>>}

\* a full batch and an oversized batch of valid items
LongBatches ==
  {BatchOf(BatchMax, Valid2, Valid1), BatchOf(BatchMax + 1, Valid3, Valid4)}

Inputs(p) ==
  IF p = "enqueue"
    THEN {<<r>> : r \in RawItems}
    ELSE {BatchOf(n, ab[1], ab[2]) : n \in 0..MaxLen, ab \in BatchPairs} \cup LongBatches

\* ------------------------------------------------- the form: definitions

\* Strings the user types are sequences of characters.
Repeat(c, n) == [i \in 1..n |-> c]

TitleMax == 100

BodyMax == 500

IsSpace(c) == c = " "

RECURSIVE TrimStart(_)
TrimStart(str) ==
  IF str # <<>> /\ IsSpace(Head(str)) THEN TrimStart(Tail(str)) ELSE str

RECURSIVE TrimEnd(_)
TrimEnd(str) ==
  IF str # <<>> /\ IsSpace(str[Len(str)])
    THEN TrimEnd(SubSeq(str, 1, Len(str) - 1)) ELSE str

\* String.prototype.trim
Trim(str) == TrimEnd(TrimStart(str))

\* recipients.includes(value)
Includes(list, value) == \E i \in 1..Len(list) : list[i] = value

AddRecipientNoDedup(list, text) ==
  LET value == Trim(text)
  IN  IF value # <<>> THEN Append(list, value) ELSE list

\* the Enter key in the recipient box: the list it sets
AddRecipient(list, text) ==
  LET value == Trim(text)
  IN  IF value # <<>> /\ ~Includes(list, value) THEN Append(list, value) ELSE list

\* recipients.filter((r) => r !== recipient)
RemoveRecipient(list, recipient) == SelectSeq(list, LAMBDA r : r # recipient)

defaultValues ==
  [userId |-> <<>>, title |-> <<>>, body |-> <<>>, priority |-> "normal"]

\* the NotificationForm schema
NotificationFormOk(values) ==
  /\ Len(values.userId) >= 1
  /\ Len(values.title) >= 1 /\ Len(values.title) <= TitleMax
  /\ Len(values.body) >= 1 /\ Len(values.body) <= BodyMax
  /\ values.priority \in {"high", "normal", "low"}

MutationCall(hook, payload) == [hook |-> hook, payload |-> payload]

\* { ...data, userId, type: "SYSTEM_ALERT" }
BatchNotification(data, userId) ==
  [userId |-> userId, title |-> data.title, body |-> data.body,
   priority |-> data.priority, type |-> "SYSTEM_ALERT"]

\* { ...data, type: "SYSTEM_ALERT" }
SingleNotification(data) ==
  [userId |-> data.userId, title |-> data.title, body |-> data.body,
   priority |-> data.priority, type |-> "SYSTEM_ALERT"]

\* the callback given to form.handleSubmit: the mutation it calls, if any
onValid(data, batch, list) ==
  IF batch
    THEN IF Len(list) = 0
           THEN None
           ELSE Some(MutationCall("batchEnqueue",
                                  [i \in 1..Len(list) |-> BatchNotification(data, list[i])]))
    ELSE Some(MutationCall("enqueue", SingleNotification(data)))

\* the toast the callback shows, if any
onValidToast(batch, list) ==
  IF batch /\ Len(list) = 0 THEN Some("Add at least one recipient") ELSE None

handleSubmitUnchecked(values, batch, list) ==
  IF batch
    THEN Some(MutationCall("batchEnqueue",
                           [i \in 1..Len(list) |-> BatchNotification(values, list[i])]))
    ELSE Some(MutationCall("enqueue", SingleNotification(values)))

\* useForm({ schema }): the schema is the form's resolver
useFormResolver(values) == NotificationFormOk(values)

\* form.handleSubmit(callback): the callback runs only on values the
\* resolver accepts
handleSubmit(values, batch, list) ==
  IF useFormResolver(values) THEN onValid(values, batch, list) ELSE None

SubmitDisabledBatchOnly(single, batch) == batch = "loading"

\* disabled={sendNotification.isLoading || batchSendNotification.isLoading}
SubmitDisabled(single, batch) == single = "loading" \/ batch = "loading"

\* what the user can type
RecipientTexts == {<<>>, <<" ">>, <<"a">>, <<" ", "a", " ">>, <<"b">>}

FieldTexts(k) ==
  CASE k = "userId" -> {<<>>, <<"u", "1">>}
    [] k = "title" -> {<<>>, <<"t">>, Repeat("x", TitleMax + 1)}
    [] k = "body" -> {<<>>, <<"b">>, Repeat("y", BodyMax + 1)}
    [] k = "priority" -> {"high", "normal", "low"}

\* how a mutation call can end
MutationResults == {"success", "UNAUTHORIZED", "INTERNAL_SERVER_ERROR"}

\* the component as mounted
FormIdle ==
  /\ signedIn = FALSE
  /\ isBatchMode = FALSE
  /\ recipients = <<>>
  /\ recipientInput = <<>>
  /\ formValues = defaultValues
  /\ sendStatus = "idle"
  /\ batchStatus = "idle"
  /\ inFlight = <<>>
  /\ toast = None
  /\ lastEvent = "mount"
  /\ issued = None

\* ------------------------------------------------------------------ Init

Init ==
  /\ requiredEnvs \in {[k \in {EnvKeys[1], EnvKeys[2]} |-> IF k = EnvKeys[1] THEN r ELSE u] :
                         r \in EnvValues(EnvKeys[1]), u \in EnvValues(EnvKeys[2])}
  /\ proc = "starting"
  /\ startupError = None
  /\ now = 0
  /\ ticks = 0
  /\ pc = "idle"
  /\ procedure = "none"
  /\ session = None
  /\ rawInput = <<>>
  /\ start = 0
  /\ input = <<>>
  /\ sent = <<>>
  /\ promises = <<>>
  /\ response = NoResponse
  /\ firstSettled = None
  /\ senderOf = [u \in Users |-> {}]
  /\ FormIdle

\* --------------------------------------------------------------- actions

\* Evaluation of the router module: the environment check, then the client
\* and the exported procedures.
ModuleLoad ==
  /\ UNCHANGED formVars
  /\ proc = "starting"
  /\ LET missing == MissingEnvs(requiredEnvs)
     IN  IF missing # <<>>
           THEN /\ proc' = "crashed"
                /\ startupError' = Some(MissingEnvError(Head(missing)))
           ELSE /\ proc' = "serving"
                /\ startupError' = None
  /\ UNCHANGED <<requiredEnvs, now, ticks, pc, procedure, session, rawInput,
                 start, input, sent, promises, response, firstSettled, senderOf>>

Tick ==
  /\ UNCHANGED formVars
  /\ ticks < MaxTicks
  /\ pc # "awaiting"
  /\ \E d \in {1, MsPerSec} : now' = now + d
  /\ ticks' = ticks + 1
  /\ UNCHANGED <<requiredEnvs, proc, startupError, pc, procedure, session,
                 rawInput, start, input, sent, promises, response, firstSettled,
                 senderOf>>

\* A caller invokes one of the two procedures of the loaded router.
Request ==
  /\ UNCHANGED formVars
  /\ proc = "serving"
  /\ pc = "idle"
  /\ \E p \in {"enqueue", "batchEnqueue"} :
       /\ procedure' = p
       /\ rawInput' \in Inputs(p)
  /\ session' \in Sessions
  /\ start' = now
  /\ pc' = "received"
  /\ input' = <<>>
  /\ sent' = <<>>
  /\ promises' = <<>>
  /\ response' = NoResponse
  /\ firstSettled' = None
  /\ UNCHANGED <<requiredEnvs, proc, startupError, now, ticks, senderOf>>

\* The procedure up to its await: middleware, input validation, and the
\* synchronous part of the handler, which issues every send.
Handle ==
  /\ UNCHANGED formVars
  /\ pc = "received"
  /\ IF Middleware(procedure, session) # "OK"
       THEN /\ response' = TRPCError("UNAUTHORIZED", "UNAUTHORIZED")
            /\ pc' = "returned"
            /\ UNCHANGED <<input, sent, promises, senderOf>>
     ELSE IF ~InputOk(procedure, rawInput)
       THEN /\ response' = TRPCError("BAD_REQUEST", "invalid input")
            /\ pc' = "returned"
            /\ UNCHANGED <<input, sent, promises, senderOf>>
     ELSE LET parsed == [i \in 1..Len(rawInput) |-> NotificationPayloadSchema(rawInput[i])]
          IN  /\ input' = parsed
              /\ IF session = None
                   \* ctx.session.user throws a TypeError before any send
                   THEN /\ sent' = <<>>
                        /\ senderOf' = senderOf
                        /\ IF procedure = "enqueue"
                             THEN /\ promises' = <<>>
                                  /\ response' = TRPCError("INTERNAL_SERVER_ERROR", "TypeError")
                                  /\ pc' = "returned"
                             ELSE /\ promises' =
                                       [i \in 1..Len(parsed) |->
                                          Rejected([isError |-> TRUE, message |-> "TypeError"])]
                                  /\ response' = NoResponse
                                  /\ pc' = "awaiting"
                   ELSE /\ sent' = [i \in 1..Len(parsed) |->
                                      SendMessageCommand(parsed[i], session, now)]
                        /\ promises' = [i \in 1..Len(parsed) |-> Pending]
                        /\ senderOf' =
                             [senderOf EXCEPT ![session[1].user.id] =
                                @ \cup {sent'[i].MessageBody["senderUserId"] : i \in 1..Len(parsed)}]
                        /\ response' = NoResponse
                        /\ pc' = "awaiting"
  /\ UNCHANGED <<requiredEnvs, proc, startupError, now, ticks, procedure,
                 session, rawInput, start, firstSettled>>

\* The queue answers one send.
Settle ==
  /\ UNCHANGED formVars
  /\ pc = "awaiting"
  /\ \E i \in 1..Len(promises) :
       /\ promises[i].status = "pending"
       /\ \E o \in SendOutcomes(i) :
            /\ i > MaxLen =>
                 /\ \A j \in 1..(i - 1) : promises[j].status # "pending"
                 /\ o = Fulfilled(Some(i))
            /\ promises' = [promises EXCEPT ![i] = o]
       /\ firstSettled' = IF firstSettled = None THEN Some(i) ELSE firstSettled
  /\ UNCHANGED <<requiredEnvs, proc, startupError, now, ticks, pc, procedure,
                 session, rawInput, start, input, sent, response, senderOf>>

\* The handler resumes after its await and returns.
Return ==
  /\ UNCHANGED formVars
  /\ pc = "awaiting"
  /\ AllSettled(promises)
  /\ response' = IF procedure = "enqueue"
                   THEN EnqueueReturn(promises[1], sent[1].MessageBody)
                   ELSE BatchReturn(promises)
  /\ pc' = "returned"
  /\ UNCHANGED <<requiredEnvs, proc, startupError, now, ticks, procedure,
                 session, rawInput, start, input, sent, promises, firstSettled,
                 senderOf>>

\* The caller has its response; the request is over.
Done ==
  /\ UNCHANGED formVars
  /\ pc = "returned"
  /\ pc' = "idle"
  /\ procedure' = "none"
  /\ session' = None
  /\ rawInput' = <<>>
  /\ start' = 0
  /\ input' = <<>>
  /\ sent' = <<>>
  /\ promises' = <<>>
  /\ response' = NoResponse
  /\ firstSettled' = None
  /\ UNCHANGED <<requiredEnvs, proc, startupError, now, ticks, senderOf>>

Next == ModuleLoad \/ Tick \/ Request \/ Handle \/ Settle \/ Return \/ Done

Spec == Init /\ [][Next]_vars

\* ---------------------------------------------------- the form: actions

\* form.reset()
FormReset == formValues' = defaultValues

Rendered == signedIn

\* useSession() changes: the form appears or disappears
SessionChange ==
  /\ signedIn' = ~signedIn
  /\ recipientInput' = <<>>
  /\ lastEvent' = "session"
  /\ issued' = None
  /\ UNCHANGED <<isBatchMode, recipients, formValues, sendStatus, batchStatus,
                 inFlight, toast>>
  /\ UNCHANGED serverVars

\* the "Single Mode" / "Batch Mode" button
ToggleMode ==
  /\ Rendered
  /\ isBatchMode' = ~isBatchMode
  /\ recipients' = <<>>
  /\ FormReset
  /\ recipientInput' = <<>>
  /\ lastEvent' = "toggle"
  /\ issued' = None
  /\ UNCHANGED <<signedIn, sendStatus, batchStatus, inFlight, toast>>
  /\ UNCHANGED serverVars

\* the user edits a field the form shows
EditField ==
  /\ Rendered
  /\ \E k \in {"userId", "title", "body", "priority"} :
       /\ k = "userId" => ~isBatchMode
       /\ \E v \in FieldTexts(k) : formValues' = [formValues EXCEPT ![k] = v]
  /\ lastEvent' = "edit"
  /\ issued' = None
  /\ UNCHANGED <<signedIn, isBatchMode, recipients, recipientInput, sendStatus,
                 batchStatus, inFlight, toast>>
  /\ UNCHANGED serverVars

\* the user types in the recipient box
TypeRecipient ==
  /\ Rendered /\ isBatchMode
  /\ recipientInput' \in RecipientTexts
  /\ lastEvent' = "type"
  /\ issued' = None
  /\ UNCHANGED <<signedIn, isBatchMode, recipients, formValues, sendStatus,
                 batchStatus, inFlight, toast>>
  /\ UNCHANGED serverVars

\* Enter in the recipient box
PressEnter ==
  /\ Rendered /\ isBatchMode
  /\ recipients' = AddRecipient(recipients, recipientInput)
  /\ recipientInput' = IF recipients' # recipients THEN <<>> ELSE recipientInput
  /\ lastEvent' = "enter"
  /\ issued' = None
  /\ UNCHANGED <<signedIn, isBatchMode, formValues, sendStatus, batchStatus,
                 inFlight, toast>>
  /\ UNCHANGED serverVars

\* the x of a chip
RemoveChip ==
  /\ Rendered /\ isBatchMode
  /\ \E i \in 1..Len(recipients) :
       recipients' = RemoveRecipient(recipients, recipients[i])
  /\ lastEvent' = "remove"
  /\ issued' = None
  /\ UNCHANGED <<signedIn, isBatchMode, recipientInput, formValues, sendStatus,
                 batchStatus, inFlight, toast>>
  /\ UNCHANGED serverVars

\* the "Clear All" button
ClearAll ==
  /\ Rendered /\ isBatchMode
  /\ recipients' = <<>>
  /\ lastEvent' = "clear"
  /\ issued' = None
  /\ UNCHANGED <<signedIn, isBatchMode, recipientInput, formValues, sendStatus,
                 batchStatus, inFlight, toast>>
  /\ UNCHANGED serverVars

\* the form is submitted: the submit button, which can be pressed only
\* while it is enabled
Submit ==
  /\ Rendered
  /\ ~SubmitDisabled(sendStatus, batchStatus)
  /\ LET call == handleSubmit(formValues, isBatchMode, recipients)
     IN  /\ issued' = call
         /\ inFlight' = IF call = None THEN inFlight ELSE Append(inFlight, call[1])
         /\ sendStatus' = IF call # None /\ call[1].hook = "enqueue"
                            THEN "loading" ELSE sendStatus
         /\ batchStatus' = IF call # None /\ call[1].hook = "batchEnqueue"
                             THEN "loading" ELSE batchStatus
         /\ toast' = IF useFormResolver(formValues)
                          /\ onValidToast(isBatchMode, recipients) # None
                       THEN onValidToast(isBatchMode, recipients) ELSE toast
  /\ lastEvent' = "submit"
  /\ UNCHANGED <<signedIn, isBatchMode, recipients, recipientInput, formValues>>
  /\ UNCHANGED serverVars

\* a mutation call is answered: onSuccess or onError of its hook
MutationSettled ==
  /\ \E i \in 1..Len(inFlight), result \in MutationResults :
       LET call == inFlight[i]
           ok == result = "success"
       IN  /\ inFlight' = SubSeq(inFlight, 1, i - 1) \o SubSeq(inFlight, i + 1, Len(inFlight))
           /\ IF call.hook = "enqueue"
                THEN /\ sendStatus' = IF ok THEN "success" ELSE "error"
                     /\ batchStatus' = batchStatus
                     /\ recipients' = recipients
                     /\ toast' = Some(IF ok THEN "Notification sent successfully!"
                                      ELSE IF result = "UNAUTHORIZED"
                                        THEN "You must be logged in to send notifications"
                                        ELSE "Failed to send notification")
                ELSE /\ batchStatus' = IF ok THEN "success" ELSE "error"
                     /\ sendStatus' = sendStatus
                     /\ recipients' = IF ok THEN <<>> ELSE recipients
                     /\ toast' = Some(IF ok THEN "Notifications sent successfully!"
                                      ELSE IF result = "UNAUTHORIZED"
                                        THEN "You must be logged in to send notifications"
                                        ELSE "Failed to send notifications")
           /\ IF ok THEN FormReset ELSE formValues' = formValues
  /\ lastEvent' = "settled"
  /\ issued' = None
  /\ UNCHANGED <<signedIn, isBatchMode, recipientInput>>
  /\ UNCHANGED serverVars

FormNext ==
  \/ SessionChange \/ ToggleMode \/ EditField \/ TypeRecipient \/ PressEnter
  \/ RemoveChip \/ ClearAll \/ Submit \/ MutationSettled

\* the component, in front of an API whose module has its environment
FormInit == Init /\ MissingEnvs(requiredEnvs) = <<>>

FormSpec == FormInit /\ [][FormNext]_vars

\* ---------------------------------------------------------------- claims

Authenticated == session # None

IsBatch == procedure = "batchEnqueue"

IsEnqueue == procedure = "enqueue"

Returned == pc = "returned"

\* the payload as the claims describe an invalid one, stated on the raw JSON
ClaimStringField(raw, k) == k \in DOMAIN raw /\ raw[k].t = "string"

ClaimInvalidItem(raw) ==
  \/ ~ClaimStringField(raw, "type")
  \/ raw["type"].v \notin {"COMMENT_REPLY", "POST_MENTION", "DIRECT_MESSAGE", "SYSTEM_ALERT"}
  \/ ~ClaimStringField(raw, "userId")
  \/ ~ClaimStringField(raw, "title")
  \/ ~ClaimStringField(raw, "body")
  \/ /\ "priority" \in DOMAIN raw
     /\ ~(ClaimStringField(raw, "priority") /\ raw["priority"].v \in {"high", "normal", "low"})

ClaimInvalidInput ==
  \/ IsBatch /\ Len(rawInput) > 10
  \/ \E i \in 1..Len(rawInput) : ClaimInvalidItem(rawInput[i])

\* the call passed authorization and validation
Accepted ==
  /\ pc \in {"awaiting", "returned"}
  /\ ~(response.kind = "error" /\ response.code \in {"UNAUTHORIZED", "BAD_REQUEST"})

\* C1: a call to enqueue or batchEnqueue made without a session ends in an
\* UNAUTHORIZED error, never awaits the queue, and passes no command to
\* sqsClient.send.
C1_UnauthenticatedRejected ==
  (pc # "idle" /\ ~Authenticated) =>
    /\ sent = <<>>
    /\ pc # "awaiting"
    /\ Returned => response.kind = "error" /\ response.code = "UNAUTHORIZED"

C1_Witness ==
  /\ Returned /\ ~Authenticated /\ IsBatch
  /\ Len(rawInput) = 2 /\ ~ClaimInvalidInput
  /\ response.kind = "error" /\ sent = <<>>

\* C2 as stated: in a returned batch, success is true, every item whose send
\* was rejected has status rejected, messageId null and a non-null error
\* string whatever the rejection reason, and every item whose send was
\* fulfilled has status fulfilled and the MessageId of its own response.
C2_Original ==
  (Returned /\ IsBatch /\ response.kind = "data") =>
    /\ response.data.success = TRUE
    /\ Len(response.data.results) = Len(promises)
    /\ \A i \in 1..Len(promises) :
         LET entry == response.data.results[i]
         IN  /\ promises[i].status = "rejected" =>
                  /\ entry.status = "rejected"
                  /\ entry.messageId = None
                  /\ entry.error # None
             /\ promises[i].status = "fulfilled" =>
                  /\ entry.status = "fulfilled"
                  /\ entry.messageId = promises[i].value.MessageId

\* C2 amended: as C2, except that the error string is the reason's message
\* when the rejection reason is an Error, and null when the reason is a
\* value that is not an Error.
C2_PartialFailureReported ==
  (Returned /\ IsBatch /\ response.kind = "data") =>
    /\ response.data.success = TRUE
    /\ Len(response.data.results) = Len(promises)
    /\ \A i \in 1..Len(promises) :
         LET entry == response.data.results[i]
         IN  /\ promises[i].status = "rejected" =>
                  /\ entry.status = "rejected"
                  /\ entry.messageId = None
                  /\ promises[i].reason.isError => entry.error = Some(promises[i].reason.message)
                  /\ ~promises[i].reason.isError => entry.error = None
             /\ promises[i].status = "fulfilled" =>
                  /\ entry.status = "fulfilled"
                  /\ entry.messageId = promises[i].value.MessageId

C2_Witness ==
  /\ Returned /\ IsBatch /\ response.kind = "data"
  /\ Len(promises) = 3
  /\ promises[1] = Fulfilled(Some(1))
  /\ promises[2].status = "rejected" /\ promises[2].reason.isError
  /\ promises[3] = Fulfilled(Some(3))
  /\ response.data.results[2].error # None

\* C3: an accepted batch has issued one send per item before it awaits, a
\* rejection leaves the other sends able to settle, and the batch returns
\* only when no send is pending.
C3_AllIssuedAllAwaited ==
  (IsBatch /\ Accepted) =>
    /\ Len(sent) = Len(rawInput)
    /\ Len(promises) = Len(rawInput)
    /\ (pc = "awaiting" /\ \E i \in 1..Len(promises) : promises[i].status = "pending")
         => ENABLED Settle
    /\ Returned => \A i \in 1..Len(promises) : promises[i].status # "pending"

\* the first send to settle was rejected, and the others were fulfilled after it
C3_Witness ==
  /\ Returned /\ IsBatch /\ Len(promises) = 3
  /\ firstSettled = Some(2)
  /\ promises[2].status = "rejected"
  /\ promises[1].status = "fulfilled"
  /\ promises[3].status = "fulfilled"

\* C4: the results of an accepted batch of n items (n <= 10) have n entries,
\* and entry i carries the status and MessageId of the send whose message
\* was built from input item i, in whatever order the sends settled.
C4_ResultsInInputOrder ==
  (Returned /\ IsBatch /\ response.kind = "data") =>
    /\ Len(rawInput) <= 10
    /\ Len(response.data.results) = Len(rawInput)
    /\ \A i \in 1..Len(rawInput) :
         /\ sent[i].MessageBody["userId"] = rawInput[i]["userId"].v
         /\ sent[i].MessageBody["type"] = rawInput[i]["type"].v
         /\ response.data.results[i].status = promises[i].status
         /\ promises[i].status = "fulfilled" =>
              response.data.results[i].messageId = promises[i].value.MessageId
         /\ promises[i].status = "rejected" =>
              response.data.results[i].messageId = None

\* the last item's send settled first
C4_Witness ==
  /\ Returned /\ IsBatch /\ response.kind = "data"
  /\ Len(rawInput) = 3
  /\ firstSettled = Some(3)
  /\ promises[1].status = "rejected"
  /\ response.data.results[3].messageId = Some(3)

\* C5: a payload that fails validation never reaches the queue: the call
\* issues no send, never awaits, and returns an error.
C5_InvalidNeverSent ==
  (pc # "idle" /\ ClaimInvalidInput) =>
    /\ sent = <<>>
    /\ pc # "awaiting"
    /\ Returned => response.kind = "error"
    /\ (Returned /\ Authenticated) => response.code = "BAD_REQUEST"

\* an oversized batch of valid items, by an authenticated caller
C5_Witness ==
  /\ Returned /\ IsBatch /\ Authenticated
  /\ Len(rawInput) = 11
  /\ \A i \in 1..Len(rawInput) : ~ClaimInvalidItem(rawInput[i])
  /\ response.kind = "error" /\ sent = <<>>

\* the time an ISO timestamp denotes, in milliseconds
DateParse(iso) == iso.sec * 1000 + iso.ms

\* C6: a result returned by enqueue has a non-null messageId and a timestamp
\* that parses to a time no earlier than the start of the call.
C6_SuccessHasIdAndTimestamp ==
  (Returned /\ IsEnqueue /\ response.kind = "data") =>
    /\ response.data.success = TRUE
    /\ response.data.messageId # None
    /\ DateParse(response.data.timestamp) >= start

\* the handler ran a second after the call started
C6_Witness ==
  /\ Returned /\ IsEnqueue /\ response.kind = "data"
  /\ response.data.timestamp.sec = 1
  /\ DateParse(response.data.timestamp) > start

\* C7: once enqueue has issued its send, it returns success only for a
\* response with a MessageId; a rejection or a response without a MessageId
\* gives INTERNAL_SERVER_ERROR with the fixed message.
C7_FailureIsInternalError ==
  (Returned /\ IsEnqueue /\ Len(sent) = 1) =>
    IF promises[1].status = "fulfilled" /\ promises[1].value.MessageId # None
      THEN /\ response.kind = "data"
           /\ response.data.messageId = promises[1].value.MessageId
      ELSE /\ response.kind = "error"
           /\ response.code = "INTERNAL_SERVER_ERROR"
           /\ response.message = "Failed to enqueue notification"

C7_Witness ==
  /\ Returned /\ IsEnqueue /\ Len(sent) = 1
  /\ promises[1] = Fulfilled(None)
  /\ response.kind = "error"

\* C8: every message carries the user id of the calling session as
\* senderUserId, and over all calls so far each user's messages have carried
\* no other senderUserId.
C8_SenderFromSession ==
  /\ \A i \in 1..Len(sent) :
       /\ Authenticated
       /\ sent[i].MessageBody["senderUserId"] = session[1].user.id
  /\ \A u \in Users : senderOf[u] \subseteq {u}

\* alice sends a payload that names bob as recipient and mallory as sender
C8_Witness ==
  /\ Len(sent) = 1
  /\ session = Some([user |-> [id |-> "alice"]])
  /\ "senderUserId" \in DOMAIN rawInput[1]
  /\ rawInput[1]["senderUserId"].v = "mallory"
  /\ sent[1].MessageBody["userId"] = "bob"
  /\ senderOf["alice"] = {"alice"}
  /\ senderOf["bob"] = {"bob"}

\* C9: an accepted call has issued exactly one send per input item, and
\* send i has NotificationType = the type of item i and Priority = the
\* priority of item i, "normal" when the item has none.
C9_OneSendPerItemWithAttributes ==
  Accepted =>
    /\ Len(sent) = Len(rawInput)
    /\ IsEnqueue => Len(sent) = 1
    /\ \A i \in 1..Len(sent) :
         /\ sent[i].MessageAttributes.NotificationType.StringValue = rawInput[i]["type"].v
         /\ sent[i].MessageAttributes.Priority.StringValue =
              IF "priority" \in DOMAIN rawInput[i] THEN rawInput[i]["priority"].v ELSE "normal"

C9_Witness ==
  /\ Accepted /\ IsBatch /\ Len(sent) = 3
  /\ "priority" \notin DOMAIN rawInput[1]
  /\ sent[1].MessageAttributes.Priority.StringValue = "normal"
  /\ sent[2].MessageAttributes.Priority.StringValue = "low"

EnvMissing == \E k \in DOMAIN requiredEnvs : requiredEnvs[k] \in {None, Some("")}

\* C10: with a required variable absent, module load fails with an error
\* naming an absent variable, and the process never serves: no request is
\* received, no send is issued, no response is produced.
C10_MissingEnvFatalAtLoad ==
  /\ EnvMissing =>
       /\ proc # "serving"
       /\ pc = "idle" /\ sent = <<>> /\ response = NoResponse
  /\ proc = "crashed" =>
       /\ EnvMissing
       /\ \E k \in DOMAIN requiredEnvs :
            /\ requiredEnvs[k] \in {None, Some("")}
            /\ startupError = Some(MissingEnvError(k))
  /\ (proc = "serving" \/ ~EnvMissing) => startupError = None

C10_Witness ==
  /\ proc = "crashed"
  /\ requiredEnvs["AWS_REGION"] = Some("us-east-1")
  /\ requiredEnvs["AWS_SQS_NOTIFICATION_QUEUE_URL"] = None
  /\ startupError = Some(MissingEnvError("AWS_SQS_NOTIFICATION_QUEUE_URL"))

\* C15: in a returned batch an entry is rejected exactly when the item's
\* queue call was rejected, and an item whose queue call was fulfilled
\* without a MessageId is reported fulfilled with messageId null and error
\* null; enqueue, on a response without a MessageId, returns an error.
C15_MissingIdFulfilledInBatch ==
  /\ (Returned /\ IsBatch /\ response.kind = "data") =>
       /\ Len(response.data.results) = Len(promises)
       /\ \A i \in 1..Len(promises) :
            /\ response.data.results[i].status = "rejected" <=>
                 /\ promises[i].status = "rejected"
                 /\ promises[i] \in SendOutcomes(i)
            /\ promises[i] = Fulfilled(None) =>
                 response.data.results[i] =
                   [status |-> "fulfilled", messageId |-> None, error |-> None]
  /\ (Returned /\ IsEnqueue /\ Len(sent) = 1 /\ promises[1] = Fulfilled(None)) =>
       response.kind = "error"

C15_Witness ==
  /\ Returned /\ IsBatch /\ response.kind = "data"
  /\ Len(promises) = 2
  /\ promises[1] = Fulfilled(None)
  /\ promises[2].status = "rejected"
  /\ response.data.results[1].status = "fulfilled"
  /\ response.data.results[1].messageId = None

\* ------------------------------------------------------ claims: the form

NoDuplicates(list) ==
  \A i, j \in 1..Len(list) : list[i] = list[j] => i = j

\* C11: the recipients list never holds the same ID twice, every ID in it is
\* trimmed and not empty, and Enter on a text whose trimmed value is already
\* in the list leaves the list as it was.
C11_NoDuplicateRecipients ==
  /\ NoDuplicates(recipients)
  /\ \A i \in 1..Len(recipients) :
       /\ recipients[i] # <<>>
       /\ recipients[i][1] # " "
       /\ recipients[i][Len(recipients[i])] # " "
  /\ (lastEvent = "enter" /\ recipientInput # <<>>) =>
       Cardinality({i \in 1..Len(recipients) :
                      recipients[i] = SelectSeq(recipientInput, LAMBDA c : c # " ")}) <= 1

\* Enter was pressed on " a " while "a" was already a chip, after "b"
C11_Witness ==
  /\ lastEvent = "enter"
  /\ recipientInput = <<" ", "a", " ">>
  /\ recipients = << <<"b">>, <<"a">> >>

\* C12: a submit in batch mode with no recipient issues no mutation call and
\* leaves no call in flight, whatever the other fields hold.
C12_EmptyBatchNotSent ==
  (lastEvent = "submit" /\ isBatchMode /\ recipients = <<>>) =>
    /\ issued = None
    /\ inFlight = <<>>
    /\ sendStatus # "loading" /\ batchStatus # "loading"

C12_Witness ==
  /\ lastEvent = "submit" /\ isBatchMode /\ recipients = <<>>
  /\ formValues.title = <<"t">> /\ formValues.body = <<"b">>
  /\ formValues.priority = "high"
  /\ issued = None

\* C13 as stated: a submit in batch mode with at least one recipient and a
\* valid title, body and priority issues one batchEnqueue call with one
\* notification per recipient, in chip order, carrying the form's title,
\* body and priority.
C13_BatchSubmitSends ==
  ( /\ lastEvent = "submit" /\ isBatchMode /\ Len(recipients) >= 1
    /\ Len(formValues.title) \in 1..100
    /\ Len(formValues.body) \in 1..500
    /\ formValues.priority \in {"high", "normal", "low"} ) =>
    /\ issued # None
    /\ issued[1].hook = "batchEnqueue"
    /\ Len(issued[1].payload) = Len(recipients)
    /\ \A i \in 1..Len(recipients) :
         /\ issued[1].payload[i].userId = recipients[i]
         /\ issued[1].payload[i].title = formValues.title
         /\ issued[1].payload[i].body = formValues.body
         /\ issued[1].payload[i].priority = formValues.priority
    /\ inFlight = <<issued[1]>>

\* C14: while a mutation call is in flight the submit button is disabled,
\* at most one call is in flight, and with no call in flight the button is
\* enabled.
C14_OneMutationInFlight ==
  /\ Len(inFlight) <= 1
  /\ inFlight # <<>> => SubmitDisabled(sendStatus, batchStatus)
  /\ inFlight = <<>> => ~SubmitDisabled(sendStatus, batchStatus)
  /\ (sendStatus = "loading") = (\E i \in 1..Len(inFlight) : inFlight[i].hook = "enqueue")
  /\ (batchStatus = "loading") = (\E i \in 1..Len(inFlight) : inFlight[i].hook = "batchEnqueue")

\* an earlier call was answered, the button came back, and a second call is
\* now in flight with the button disabled
C14_Witness ==
  /\ inFlight # <<>>
  /\ sendStatus = "loading"
  /\ toast = Some("Failed to send notification")
  /\ ~ENABLED Submit

====
